---------------------------- MODULE Spec2Model ----------------------------
(***************************************************************************)
(* LitColumnsApp (Assignment1/Project/LitColumnsApp.cpp): the scene tables *)
(* built by Initialize and the Update/Draw frame loop, whose three frame   *)
(* resources are recycled against a GPU fence.  The CPU side is the        *)
(* application thread (Initialize, OnResize, Update, Draw); the GPU side   *)
(* consumes the command queue asynchronously.                              *)
(***************************************************************************)
EXTENDS Integers, Sequences, FiniteSets, TLC

(***************************************************************************)
(* Program constants and model bounds                                      *)
(***************************************************************************)

\* const int gNumFrameResources = 3;
gNumFrameResources == 3

\* UINT ObjCBIndex = -1;  the all-ones pattern is kept as -1 here: as an
\* index it lies outside every buffer, like the 2^32 - 1 it denotes.
DefaultObjCBIndex == -1

\* Frames are recorded while mCurrentFence is below this value.
MaxFence == 9

\* GeometryGenerator results: each mesh has 1..MaxMeshVerts vertices and
\* 1..MaxMeshTris triangles (three indices each).
MaxMeshVerts == 3
MaxMeshTris == 2

\* Aspect ratios the window can be resized to.
MaxAspect == 2

NullPtr == "nullptr"

(***************************************************************************)
(* Small helpers                                                           *)
(***************************************************************************)

Range(s) == { s[i] : i \in DOMAIN s }

RECURSIVE Flatten(_)
Flatten(ss) ==
    IF ss = << >> THEN << >> ELSE Head(ss) \o Flatten(Tail(ss))

\* Position of the first occurrence of x in s (0 when absent).
IndexOf(s, x) ==
    IF x \in Range(s) THEN CHOOSE i \in DOMAIN s : s[i] = x /\ \A j \in 1..(i-1) : s[j] # x
    ELSE 0

(***************************************************************************)
(* BuildShapeGeometry: the meshes and the orders in which the source       *)
(* walks them                                                              *)
(***************************************************************************)

\* The GeometryGenerator::MeshData locals, in declaration order.
MeshNames ==
    << "box", "grid", "sphere", "cylinder", "diamond", "wedge", "octahedron",
       "triangularPrism", "hexagon", "octagon", "cone", "pyramid", "container",
       "star" >>

\* Results of the geoGen.Create* calls: mesh -> [nv, ni], drawn from a
\* family indexed by two seeds so that neighbouring meshes differ in size.
MeshDataOf(sv, si) ==
    [ m \in Range(MeshNames) |->
        LET p == IndexOf(MeshNames, m) IN
        [ nv |-> 1 + ((p * p + sv) % MaxMeshVerts),
          ni |-> 3 * (1 + ((p + si) % MaxMeshTris)) ] ]

MeshInputs ==
    { MeshDataOf(sv, si) : sv \in 0..(MaxMeshVerts - 1), si \in 0..(MaxMeshTris - 1) }

\* "Cache the vertex offsets": xVertexOffset = previous offset + previous size.
VertexOffsetChain ==
    << "box", "grid", "sphere", "cylinder", "diamond", "wedge", "octahedron",
       "triangularPrism", "hexagon", "octagon", "cone", "pyramid", "container",
       "star" >>

\* "Cache the starting index": xIndexOffset = previous offset + previous size.
IndexOffsetChain ==
    << "box", "grid", "sphere", "cylinder", "diamond", "wedge", "octahedron",
       "triangularPrism", "hexagon", "octagon", "cone", "pyramid", "container",
       "star" >>

\* Faulty variant: the copy loops of sphere and cylinder exchanged.
VertexCopyOrder_Swapped ==
    << "box", "grid", "cylinder", "sphere", "diamond", "wedge", "octahedron",
       "triangularPrism", "hexagon", "octagon", "cone", "pyramid", "container",
       "star" >>

\* The for-loops that copy the vertices through the shared cursor k.
VertexCopyOrder ==
    << "box", "grid", "sphere", "cylinder", "diamond", "wedge", "octahedron",
       "triangularPrism", "hexagon", "octagon", "cone", "pyramid", "container",
       "star" >>

\* The indices.insert(indices.end(), ...) calls.
IndexInsertOrder ==
    << "box", "grid", "sphere", "cylinder", "diamond", "wedge", "octahedron",
       "triangularPrism", "hexagon", "octagon", "cone", "pyramid", "container",
       "star" >>

\* geo->DrawArgs[key] = xSubmesh: key -> the mesh whose submesh is stored.
DrawArgsKeys ==
    << <<"box", "box">>, <<"grid", "grid">>, <<"sphere", "sphere">>,
       <<"cylinder", "cylinder">>, <<"diamond", "diamond">>, <<"wedge", "wedge">>,
       <<"octahedron", "octahedron">>, <<"triangularPrism", "triangularPrism">>,
       <<"hexagon", "hexagon">>, <<"octagon", "octagon">>, <<"cone", "cone">>,
       <<"pyramid", "pyramid">>, <<"container", "container">>, <<"star", "star">> >>

\* Offset of chain[n]: the sum the chained assignments compute.
RECURSIVE ChainOffset(_, _, _, _)
ChainOffset(chain, n, md, field) ==
    IF n <= 1 THEN 0
    ELSE ChainOffset(chain, n - 1, md, field)
         + (IF field = "nv" THEN md[chain[n - 1]].nv ELSE md[chain[n - 1]].ni)

VertexOffset(md, m) == ChainOffset(VertexOffsetChain, IndexOf(VertexOffsetChain, m), md, "nv")
IndexOffset(md, m) == ChainOffset(IndexOffsetChain, IndexOf(IndexOffsetChain, m), md, "ni")

\* SubmeshGeometry xSubmesh; IndexCount / StartIndexLocation / BaseVertexLocation.
Submesh(md, m) ==
    [ IndexCount |-> md[m].ni,
      StartIndexLocation |-> IndexOffset(md, m),
      BaseVertexLocation |-> VertexOffset(md, m) ]

\* A value-initialised SubmeshGeometry, what DrawArgs[key] creates for a new key.
DefaultSubmesh ==
    [ IndexCount |-> 0, StartIndexLocation |-> 0, BaseVertexLocation |-> 0 ]

RECURSIVE SumOver(_, _, _)
SumOver(names, md, field) ==
    IF names = << >> THEN 0
    ELSE (IF field = "nv" THEN md[Head(names)].nv ELSE md[Head(names)].ni)
         + SumOver(Tail(names), md, field)

\* auto totalVertexCount = box.Vertices.size() + ... + star.Vertices.size();
TotalVertexCount(md) == SumOver(MeshNames, md, "nv")

DefaultVertex == [ mesh |-> "none", i |-> 0 ]

\* The copy loops: vertices[k] = mesh.Vertices[i] for i = 0..size-1, ++k.
\* A write past the end of the vector is dropped and recorded in oob.
RECURSIVE CopyVertices(_, _, _)
CopyVertices(order, md, st) ==
    IF order = << >> THEN st
    ELSE LET m == Head(order)
             n == md[m].nv
             total == Len(st.vertices)
             written == [ j \in 1..total |->
                            IF j > st.k /\ j <= st.k + n
                            THEN [ mesh |-> m, i |-> j - st.k - 1 ]
                            ELSE st.vertices[j] ]
         IN CopyVertices(Tail(order), md,
                [ vertices |-> written, k |-> st.k + n,
                  oob |-> st.oob \/ (st.k + n > total) ])

\* indices.insert(indices.end(), begin(m.GetIndices16()), end(m.GetIndices16()))
RECURSIVE InsertIndices(_, _)
InsertIndices(order, md) ==
    IF order = << >> THEN << >>
    ELSE LET m == Head(order) IN
         [ j \in 1..md[m].ni |-> [ mesh |-> m, i |-> j - 1 ] ]
         \o InsertIndices(Tail(order), md)

\* The MeshGeometry "shapeGeo" with its DrawArgs, as BuildShapeGeometry
\* leaves it; k is the final value of the vertex write cursor.
ShapeGeo(md) ==
    LET total == TotalVertexCount(md)
        copied == CopyVertices(VertexCopyOrder, md,
                     [ vertices |-> [ j \in 1..total |-> DefaultVertex ],
                       k |-> 0, oob |-> FALSE ])
    IN [ Name |-> "shapeGeo",
         Vertices |-> copied.vertices,
         Indices |-> InsertIndices(IndexInsertOrder, md),
         k |-> copied.k,
         totalVertexCount |-> total,
         oob |-> copied.oob,
         DrawArgs |-> [ key \in { e[1] : e \in Range(DrawArgsKeys) } |->
                          LET e == CHOOSE e \in Range(DrawArgsKeys) : e[1] = key
                          IN Submesh(md, e[2]) ] ]

\* mGeometries[geo->Name] = std::move(geo);
BuildShapeGeometry(md) ==
    LET geo == ShapeGeo(md) IN [ n \in { geo.Name } |-> geo ]

(***************************************************************************)
(* BuildMaterials                                                          *)
(***************************************************************************)

\* A default-constructed Material (d3dUtil.h): not yet given a buffer slot,
\* dirty for every frame resource.
DefaultMaterial ==
    [ null |-> FALSE, Name |-> "", MatCBIndex |-> -1, DiffuseSrvHeapIndex |-> -1,
      NumFramesDirty |-> gNumFrameResources ]

\* What a std::unique_ptr<Material> created by operator[] holds.
NullMaterial ==
    [ null |-> TRUE, Name |-> "", MatCBIndex |-> -1, DiffuseSrvHeapIndex |-> -1,
      NumFramesDirty |-> 0 ]

NewMaterial(name, cbIndex, heapIndex) ==
    [ DefaultMaterial EXCEPT !.Name = name, !.MatCBIndex = cbIndex,
                             !.DiffuseSrvHeapIndex = heapIndex ]

\* Faulty variant: wallPurple is given the buffer slot of shineRed, as it is
\* given its DiffuseSrvHeapIndex.
MaterialLocals_SharedSlot ==
    [ bricks0       |-> NewMaterial("bricks0", 0, 0),
      stone0        |-> NewMaterial("stone0", 1, 1),
      tile0         |-> NewMaterial("tile0", 2, 2),
      wedgeMat      |-> NewMaterial("wedgeMat", 3, 3),
      diamondMat    |-> NewMaterial("diaMat", 4, 4),
      octahedronMat |-> NewMaterial("octahedronMat", 5, 5),
      sky           |-> NewMaterial("sky", 6, 6),
      gold          |-> NewMaterial("gold", 7, 7),
      shineBlue     |-> NewMaterial("shineBlue", 8, 8),
      shineRed      |-> NewMaterial("shineRed", 9, 9),
      wallPurple    |-> NewMaterial("wallPurple", 9, 9) ]

\* The local Material objects, by the name of the local variable.
MaterialLocals ==
    [ bricks0       |-> NewMaterial("bricks0", 0, 0),
      stone0        |-> NewMaterial("stone0", 1, 1),
      tile0         |-> NewMaterial("tile0", 2, 2),
      wedgeMat      |-> NewMaterial("wedgeMat", 3, 3),
      diamondMat    |-> NewMaterial("diaMat", 4, 4),
      octahedronMat |-> NewMaterial("octahedronMat", 5, 5),
      sky           |-> NewMaterial("sky", 6, 6),
      gold          |-> NewMaterial("gold", 7, 7),
      shineBlue     |-> NewMaterial("shineBlue", 8, 8),
      shineRed      |-> NewMaterial("shineRed", 9, 9),
      wallPurple    |-> NewMaterial("wallPurple", 10, 9) ]

\* Faulty variant: the diamond material stored under the name of its local
\* variable instead of "diaMat".
MaterialInsertions_LocalName ==
    << <<"bricks0", "bricks0">>, <<"stone0", "stone0">>, <<"tile0", "tile0">>,
       <<"wedgeMat", "wedgeMat">>, <<"diamondMat", "diamondMat">>,
       <<"octahedronMat", "octahedronMat">>, <<"sky", "sky">>, <<"gold", "gold">>,
       <<"shineBlue", "shineBlue">>, <<"shineRed", "shineRed">>,
       <<"wallPurple", "wallPurple">> >>

\* mMaterials[key] = std::move(local), in source order.
MaterialInsertions ==
    << <<"bricks0", "bricks0">>, <<"stone0", "stone0">>, <<"tile0", "tile0">>,
       <<"wedgeMat", "wedgeMat">>, <<"diaMat", "diamondMat">>,
       <<"octahedronMat", "octahedronMat">>, <<"sky", "sky">>, <<"gold", "gold">>,
       <<"shineBlue", "shineBlue">>, <<"shineRed", "shineRed">>,
       <<"wallPurple", "wallPurple">> >>

BuildMaterials ==
    [ key \in { e[1] : e \in Range(MaterialInsertions) } |->
        LET last == CHOOSE i \in DOMAIN MaterialInsertions :
                        /\ MaterialInsertions[i][1] = key
                        /\ \A j \in DOMAIN MaterialInsertions :
                              MaterialInsertions[j][1] = key => j <= i
        IN MaterialLocals[MaterialInsertions[last][2]] ]

(***************************************************************************)
(* BuildRenderItems                                                        *)
(***************************************************************************)

\* One render item as written in the source: the ObjCBIndex it is given, the
\* key looked up in mMaterials and the key looked up in Geo->DrawArgs.
R(cb, mat, args) == [ ObjCBIndex |-> cb, MatKey |-> mat, ArgsKey |-> args ]

\* Faulty variant: objCBIndex is advanced once per pass, not once per item.
LoopItems_OncePerPass(start, body) ==
    Flatten([ i \in 1..2 |->
                [ j \in 1..Len(body) |-> R(start + (i - 1), body[j][1], body[j][2]) ] ])

\* for(int i = 0; i < 2; ++i) with UINT objCBIndex = start: each pass creates
\* the items of body, every item taking objCBIndex++, and pushes them in order.
LoopItems(start, body) ==
    Flatten([ i \in 1..2 |->
                [ j \in 1..Len(body) |->
                    R(start + (i - 1) * Len(body) + (j - 1), body[j][1], body[j][2]) ] ])

RenderItemSource ==
       << R(0, "diaMat", "cylinder"),            \* FountainBaseCylinderRitem
          R(1, "stone0", "container"),           \* containerRitem
          R(2, "wedgeMat", "pyramid"),           \* pyramidRitem
          R(3, "wedgeMat", "pyramid"),           \* pyramidRitem2
          R(4, "sky", "cone"),                   \* coneRitem
          R(5, "diaMat", "cylinder"),            \* cylinderRitem
          R(6, "gold", "hexagon"),               \* HexagonRitem
          R(7, "sky", "triangularPrism"),        \* triPrismRitem
          R(8, "bricks0", "triangularPrism"),    \* leftDoorRitem
          R(9, "bricks0", "triangularPrism"),    \* rightDoorRitem
          R(10, "shineBlue", "diamond"),         \* diamondRitem
          R(11, "shineRed", "box"),              \* boxRitem
          R(12, "tile0", "grid"),                \* gridRitem
          R(13, "wedgeMat", "wedge"),            \* WedgeRitem
          R(14, "octahedronMat", "octahedron"),  \* octahedronRitem1
          R(15, "octahedronMat", "octahedron") >> \* octahedronRitem
    \o LoopItems(16, << <<"bricks0", "octagon">>, <<"bricks0", "octagon">>,
                        <<"gold", "sphere">>, <<"gold", "sphere">> >>)
    \o LoopItems(24, << <<"diaMat", "hexagon">>, <<"diaMat", "hexagon">>,
                        <<"gold", "cone">>, <<"gold", "cone">> >>)
    \o << R(32, "wedgeMat", "wedge"),            \* leftMainWedgeRitem
          R(33, "wedgeMat", "wedge"),            \* rightMainWedgeRitem
          R(34, "wedgeMat", "wedge"),            \* backMainWedgeRitem
          R(35, "diaMat", "cylinder"),           \* stickRitem
          R(36, "shineRed", "star"),             \* starRitem
          R(37, "wallPurple", "box"),            \* wallsInBackRitem
          R(38, "wallPurple", "box"),            \* wallsInBackRitem2
          R(39, "wallPurple", "box") >>          \* wallsInBackRitem3
    \o LoopItems(40, << <<"wallPurple", "box">> >>)   \* wallsInMidRitem
    \o LoopItems(42, << <<"wallPurple", "box">> >>)   \* wallsInMidRitem
    \o LoopItems(44, << <<"wallPurple", "box">> >>)   \* wallsInMidRitem2
    \o LoopItems(46, << <<"wallPurple", "box">> >>)   \* frontWallsRitem
    \o LoopItems(48, << <<"wallPurple", "box">> >>)   \* CorridorWallsRitem

\* struct RenderItem with its default member initialisers.
DefaultRenderItem ==
    [ World |-> 0, NumFramesDirty |-> gNumFrameResources,
      ObjCBIndex |-> DefaultObjCBIndex, Mat |-> NullPtr, Geo |-> NullPtr,
      ArgsKey |-> "", IndexCount |-> 0, StartIndexLocation |-> 0,
      BaseVertexLocation |-> 0 ]

\* std::unordered_map::operator[]: a key that is absent is inserted with a
\* value-initialised mapped value.
MapWithDefaults(map, keys, default) ==
    [ k \in (DOMAIN map) \cup keys |-> IF k \in DOMAIN map THEN map[k] ELSE default ]

IsNullMaterial(m) == m.null
IsNullGeometry(g) == g.Name = ""

\* map[key].get(): the address of the mapped object (its key stands for it),
\* or nullptr when the unique_ptr is empty.
MaterialPtr(map, key) ==
    IF key \in DOMAIN map /\ ~IsNullMaterial(map[key]) THEN key ELSE NullPtr

GeometryPtr(map, key) ==
    IF key \in DOMAIN map /\ ~IsNullGeometry(map[key]) THEN key ELSE NullPtr

\* What mGeometries[key] creates for a new key: an empty unique_ptr.
NullGeometry ==
    [ Name |-> "", Vertices |-> << >>, Indices |-> << >>, k |-> 0,
      totalVertexCount |-> 0, oob |-> FALSE, DrawArgs |-> << >> ]

\* The maps and lists after BuildRenderItems has run on mats and geos.  The
\* n-th item's World is the n-th matrix written in the source (its ordinal
\* stands for it).  A DrawArgs lookup through a null Geo is a null
\* dereference, recorded in nullDeref.
BuildRenderItems(mats, geos) ==
    LET src == RenderItemSource
        mats2 == MapWithDefaults(mats, { src[n].MatKey : n \in DOMAIN src }, NullMaterial)
        geos1 == MapWithDefaults(geos, { "shapeGeo" }, NullGeometry)
        geoPtr == GeometryPtr(geos1, "shapeGeo")
        args2 == IF geoPtr = NullPtr THEN << >>
                 ELSE MapWithDefaults(geos1[geoPtr].DrawArgs,
                                      { src[n].ArgsKey : n \in DOMAIN src }, DefaultSubmesh)
        geos2 == IF geoPtr = NullPtr THEN geos1
                 ELSE [ geos1 EXCEPT ![geoPtr].DrawArgs = args2 ]
        item(n) ==
            LET sub == IF geoPtr = NullPtr THEN DefaultSubmesh ELSE args2[src[n].ArgsKey]
            IN [ DefaultRenderItem EXCEPT
                   !.World = n,
                   !.ObjCBIndex = src[n].ObjCBIndex,
                   !.Mat = MaterialPtr(mats2, src[n].MatKey),
                   !.Geo = geoPtr,
                   !.ArgsKey = src[n].ArgsKey,
                   !.IndexCount = sub.IndexCount,
                   !.StartIndexLocation = sub.StartIndexLocation,
                   !.BaseVertexLocation = sub.BaseVertexLocation ]
        items == [ n \in DOMAIN src |-> item(n) ]
    IN [ mMaterials |-> mats2,
         mGeometries |-> geos2,
         mAllRitems |-> items,
         \* for(auto& e : mAllRitems) mOpaqueRitems.push_back(e.get());
         mOpaqueRitems |-> [ n \in DOMAIN items |-> n ],
         nullDeref |-> (geoPtr = NullPtr) ]

(***************************************************************************)
(* Frame resources and their upload buffers                                *)
(***************************************************************************)

\* FrameResource* mCurrFrameResource = nullptr;  a frame resource is named
\* by its position 0..2 in mFrameResources, the null pointer by -1.
NullFrameResource == -1

\* The command list recorded with D3DApp's own mDirectCmdListAlloc.
DirectCmdListAlloc == -1

\* An element of an upload buffer that was never written.
Uninit == [ valid |-> FALSE ]

\* UploadBuffer<T>(device, elementCount, true): elementCount elements; writes
\* counts the CopyData calls per element, oob records a CopyData outside it.
UploadBuffer(elementCount) ==
    [ elems |-> [ j \in 1..elementCount |-> Uninit ],
      writes |-> [ j \in 1..elementCount |-> 0 ],
      oob |-> FALSE ]

\* UploadBuffer::CopyData(elementIndex, data), a memcpy at elementIndex,
\* applied for each call of the sequence calls in turn: an element ends with
\* the data of the last call that names it.
CopyDataAll(cb, calls) ==
    LET hits(j) == { c \in DOMAIN calls : calls[c].index = j - 1 }
        last(S) == CHOOSE c \in S : \A d \in S : d <= c
    IN [ elems |-> [ j \in DOMAIN cb.elems |->
                       IF hits(j) = {} THEN cb.elems[j] ELSE calls[last(hits(j))].data ],
         writes |-> [ j \in DOMAIN cb.writes |-> cb.writes[j] + Cardinality(hits(j)) ],
         oob |-> cb.oob \/ \E c \in DOMAIN calls :
                              calls[c].index < 0 \/ calls[c].index >= Len(cb.elems) ]

CopyData(cb, elementIndex, data) ==
    CopyDataAll(cb, << [ index |-> elementIndex, data |-> data ] >>)

\* FrameResource(device, passCount, objectCount, materialCount); Fence = 0.
FrameResource(passCount, objectCount, materialCount) ==
    [ Fence |-> 0,
      PassCB |-> UploadBuffer(passCount),
      MaterialCB |-> UploadBuffer(materialCount),
      ObjectCB |-> UploadBuffer(objectCount) ]

BuildFrameResources(ritems, mats) ==
    [ i \in 1..gNumFrameResources |->
        FrameResource(1, Len(ritems), Cardinality(DOMAIN mats)) ]

(***************************************************************************)
(* Initialize: the Build* calls in the order of the source                 *)
(***************************************************************************)

\* The application before Initialize.
EmptyApp ==
    [ mRootSignature |-> FALSE, mShaders |-> {}, mGeometries |-> << >>,
      mMaterials |-> << >>, mAllRitems |-> << >>, mOpaqueRitems |-> << >>,
      mFrameResources |-> << >>, mOpaquePSO |-> FALSE, mCommandList |-> << >>,
      faults |-> {} ]

\* Faulty variant: the frame resources are built before the render items.
InitializeSteps_FrameResourcesEarly ==
    << "BuildRootSignature", "BuildShadersAndInputLayout", "BuildShapeGeometry",
       "BuildMaterials", "BuildFrameResources", "BuildRenderItems", "BuildPSOs" >>

InitializeSteps ==
    << "BuildRootSignature", "BuildShadersAndInputLayout", "BuildShapeGeometry",
       "BuildMaterials", "BuildRenderItems", "BuildFrameResources", "BuildPSOs" >>

\* One Build* call applied to the application state; md is what the
\* GeometryGenerator returns.
ApplyStep(step, app, md) ==
    CASE step = "BuildRootSignature" ->
            [ app EXCEPT !.mRootSignature = TRUE ]
      [] step = "BuildShadersAndInputLayout" ->
            [ app EXCEPT !.mShaders = { "standardVS", "opaquePS" } ]
      [] step = "BuildShapeGeometry" ->
            [ app EXCEPT !.mGeometries = BuildShapeGeometry(md) ]
      [] step = "BuildMaterials" ->
            [ app EXCEPT !.mMaterials =
                  [ k \in (DOMAIN app.mMaterials) \cup (DOMAIN BuildMaterials) |->
                      IF k \in DOMAIN BuildMaterials THEN BuildMaterials[k]
                      ELSE app.mMaterials[k] ] ]
      [] step = "BuildRenderItems" ->
            LET b == BuildRenderItems(app.mMaterials, app.mGeometries) IN
            [ app EXCEPT !.mMaterials = b.mMaterials,
                         !.mGeometries = b.mGeometries,
                         !.mAllRitems = app.mAllRitems \o b.mAllRitems,
                         !.mOpaqueRitems = app.mOpaqueRitems \o b.mOpaqueRitems,
                         !.faults = IF b.nullDeref THEN @ \cup { "nullDeref" } ELSE @ ]
      [] step = "BuildFrameResources" ->
            [ app EXCEPT !.mFrameResources =
                  @ \o BuildFrameResources(app.mAllRitems, app.mMaterials) ]
      [] step = "BuildPSOs" ->
            \* mShaders["standardVS"]->GetBufferPointer() on a missing shader
            \* is a null dereference; a null root signature fails the PSO.
            IF { "standardVS", "opaquePS" } \subseteq app.mShaders
            THEN [ app EXCEPT !.mOpaquePSO = app.mRootSignature,
                              !.faults = IF app.mRootSignature THEN @
                                         ELSE @ \cup { "psoFailed" } ]
            ELSE [ app EXCEPT !.faults = @ \cup { "nullDeref" } ]

RECURSIVE RunSteps(_, _, _)
RunSteps(steps, app, md) ==
    IF steps = << >> THEN app
    ELSE RunSteps(Tail(steps), ApplyStep(Head(steps), app, md), md)

(***************************************************************************)
(* State                                                                   *)
(***************************************************************************)

VARIABLES
    pc,                       \* where the application thread is
    initResult,               \* what Initialize returned: "none", "true", "false"
    geoGen,                   \* what the GeometryGenerator returns
    app,                      \* the members Initialize builds (see EmptyApp)
    mCurrFrameResourceIndex,
    mCurrFrameResource,
    mCurrentFence,            \* D3DApp::mCurrentFence
    mFence,                   \* mFence->GetCompletedValue()
    mCommandQueue,            \* work submitted and not yet finished by the GPU
    mProj,                    \* projection matrix, named by its aspect ratio
    initLog,                  \* calls made by Initialize, in order
    selected,                 \* the frame resource each Update selected
    drawFences                \* fence values signalled by Draw

vars == << pc, initResult, geoGen, app, mCurrFrameResourceIndex, mCurrFrameResource,
           mCurrentFence, mFence, mCommandQueue, mProj, initLog, selected, drawFences >>

\* A command list in the queue: the allocator it was recorded with and what
\* it holds ("init", "resize" or "frame").
Exec(alloc, list) == [ op |-> "exec", alloc |-> alloc, list |-> list, value |-> 0 ]
Signal(value) ==
    [ op |-> "signal", alloc |-> DirectCmdListAlloc, list |-> "none", value |-> value ]

\* mSwapChain->Present(0, 0): the swap is queued behind the frame's commands.
Present ==
    [ op |-> "present", alloc |-> DirectCmdListAlloc, list |-> "none", value |-> 0 ]

\* Command lists recorded with allocator alloc that the GPU has not finished.
Pending(alloc) ==
    { i \in DOMAIN mCommandQueue :
        mCommandQueue[i].op = "exec" /\ mCommandQueue[i].alloc = alloc }

Init ==
    /\ pc = "start"
    /\ initResult = "none"
    /\ geoGen \in MeshInputs
    /\ app = EmptyApp
    /\ mCurrFrameResourceIndex = 0
    /\ mCurrFrameResource = NullFrameResource
    /\ mCurrentFence = 0
    /\ mFence = 0
    /\ mCommandQueue = << >>
    /\ mProj = 0
    /\ initLog = << >>
    /\ selected = << >>
    /\ drawFences = {}

(***************************************************************************)
(* The GPU and the fence                                                   *)
(***************************************************************************)

\* D3DApp::FlushCommandQueue up to its wait: mCurrentFence++, then
\* mCommandQueue->Signal(mFence, mCurrentFence).
FlushSignal(queue, fence) ==
    [ queue |-> Append(queue, Signal(fence + 1)), fence |-> fence + 1 ]

\* D3DApp::FlushCommandQueue returns once the GPU has reached mCurrentFence.
Flushed == mFence >= mCurrentFence

\* The GPU finishes the oldest entry of the queue: a command list, or a
\* Signal, which sets the fence's completed value ("the new fence point won't
\* be set until the GPU finishes processing all the commands prior to this
\* Signal()").
GpuStep ==
    /\ mCommandQueue # << >>
    /\ mFence' = IF Head(mCommandQueue).op = "signal"
                 THEN Head(mCommandQueue).value ELSE mFence
    /\ mCommandQueue' = Tail(mCommandQueue)
    /\ UNCHANGED << pc, initResult, geoGen, app, mCurrFrameResourceIndex,
                    mCurrFrameResource, mCurrentFence, mProj, initLog, selected,
                    drawFences >>

(***************************************************************************)
(* Initialize                                                              *)
(***************************************************************************)

\* Faulty variant: the queue is flushed before the list is executed.
InitializeSubmit_FlushFirst(queue, fence) ==
    LET f == FlushSignal(queue, fence)
    IN [ queue |-> Append(f.queue, Exec(DirectCmdListAlloc, "init")), fence |-> f.fence ]

\* ThrowIfFailed(mCommandList->Close()); ExecuteCommandLists; then
\* FlushCommandQueue up to its wait.
InitializeSubmit(queue, fence) ==
    FlushSignal(Append(queue, Exec(DirectCmdListAlloc, "init")), fence)

\* bool LitColumnsApp::Initialize(): ok is what D3DApp::Initialize returns
\* and aspect the projection its OnResize call leaves.  On success the
\* handler runs up to the wait inside FlushCommandQueue.
Initialize(ok, aspect) ==
    /\ pc = "start"
    /\ IF ~ok
       THEN /\ initResult' = "false"
            /\ pc' = "exit"
            /\ initLog' = << "D3DApp::Initialize failed" >>
            /\ UNCHANGED << app, mCommandQueue, mCurrentFence, mProj >>
       ELSE LET f == InitializeSubmit(mCommandQueue, mCurrentFence)
            IN /\ app' = RunSteps(InitializeSteps, app, geoGen)
               /\ mCommandQueue' = f.queue
               /\ mCurrentFence' = f.fence
               /\ mProj' = aspect
               /\ initLog' = << "D3DApp::Initialize succeeded", "Reset" >> \o InitializeSteps
                             \o << "Close", "ExecuteCommandLists", "FlushCommandQueue" >>
               /\ pc' = "initFlush"
               /\ UNCHANGED initResult
    /\ UNCHANGED << geoGen, mCurrFrameResourceIndex, mCurrFrameResource, mFence,
                    selected, drawFences >>

\* FlushCommandQueue returns, then "return true".
InitializeReturn ==
    /\ pc = "initFlush"
    /\ Flushed
    /\ initResult' = "true"
    /\ initLog' = Append(initLog, "return true")
    /\ pc' = "idle"
    /\ UNCHANGED << geoGen, app, mCurrFrameResourceIndex, mCurrFrameResource,
                    mCurrentFence, mFence, mCommandQueue, mProj, selected, drawFences >>

(***************************************************************************)
(* OnResize                                                                *)
(***************************************************************************)

\* LitColumnsApp::OnResize calls D3DApp::OnResize, which flushes the queue,
\* re-records the swap-chain set-up on the direct allocator, executes it and
\* flushes again; then mProj is recomputed from the new aspect ratio.
OnResizeBegin ==
    /\ pc = "idle"
    /\ mCurrentFence + 2 <= MaxFence
    /\ LET f == FlushSignal(mCommandQueue, mCurrentFence)
       IN /\ mCommandQueue' = f.queue
          /\ mCurrentFence' = f.fence
    /\ pc' = "resizeFlush1"
    /\ UNCHANGED << initResult, geoGen, app, mCurrFrameResourceIndex,
                    mCurrFrameResource, mFence, mProj, initLog, selected, drawFences >>

OnResizeExecute ==
    /\ pc = "resizeFlush1"
    /\ Flushed
    /\ LET f == FlushSignal(Append(mCommandQueue, Exec(DirectCmdListAlloc, "resize")),
                            mCurrentFence)
       IN /\ mCommandQueue' = f.queue
          /\ mCurrentFence' = f.fence
    /\ pc' = "resizeFlush2"
    /\ UNCHANGED << initResult, geoGen, app, mCurrFrameResourceIndex,
                    mCurrFrameResource, mFence, mProj, initLog, selected, drawFences >>

OnResizeEnd(aspect) ==
    /\ pc = "resizeFlush2"
    /\ Flushed
    /\ mProj' = aspect
    /\ pc' = "idle"
    /\ UNCHANGED << initResult, geoGen, app, mCurrFrameResourceIndex,
                    mCurrFrameResource, mCurrentFence, mFence, mCommandQueue,
                    initLog, selected, drawFences >>

(***************************************************************************)
(* Update                                                                  *)
(***************************************************************************)

\* The frame resource a pointer names (only dereferenced when non-null).
Deref(frs, p) == frs[p + 1]

\* mFrameResources[i].get()
FrameResourceAt(frs, i) == IF i + 1 \in DOMAIN frs THEN i ELSE NullFrameResource

\* Faulty variant: the index is advanced without wrapping.
NextFrameResourceIndex_NoWrap(i) == i + 1

\* mCurrFrameResourceIndex = (mCurrFrameResourceIndex + 1) % gNumFrameResources;
NextFrameResourceIndex(i) == (i + 1) % gNumFrameResources

\* Faulty variants of the fence test: the comparison reversed; "== 0" written
\* for "!= 0"; the wait ending one fence point early.
MustWait_Reversed(frFence, completed) == frFence # 0 /\ completed > frFence
MustWait_EqualZero(frFence, completed) == frFence = 0 /\ completed < frFence
MustWait_OneEarly(frFence, completed) == frFence # 0 /\ completed + 1 < frFence

\* if(mCurrFrameResource->Fence != 0 &&
\*    mFence->GetCompletedValue() < mCurrFrameResource->Fence)
MustWait(frFence, completed) == frFence # 0 /\ completed < frFence

\* OnKeyboardInput and UpdateCamera, the cycling of the frame resource and
\* the test of its fence.
UpdateBegin ==
    /\ pc = "idle"
    /\ mCurrentFence < MaxFence
    /\ LET i == NextFrameResourceIndex(mCurrFrameResourceIndex)
           p == FrameResourceAt(app.mFrameResources, i)
       IN /\ mCurrFrameResourceIndex' = i
          /\ mCurrFrameResource' = p
          /\ selected' = Append(selected, p)
          /\ IF p = NullFrameResource
             THEN /\ app' = [ app EXCEPT !.faults = @ \cup { "nullDeref" } ]
                  /\ pc' = "exit"
             ELSE /\ app' = app
                  /\ pc' = IF MustWait(Deref(app.mFrameResources, p).Fence, mFence)
                           THEN "updateWait" ELSE "updateCBs"
    /\ UNCHANGED << initResult, geoGen, mCurrentFence, mFence, mCommandQueue, mProj,
                    initLog, drawFences >>

\* SetEventOnCompletion(mCurrFrameResource->Fence, eventHandle);
\* WaitForSingleObject(eventHandle, INFINITE) returns.
UpdateWake ==
    /\ pc = "updateWait"
    /\ mFence >= Deref(app.mFrameResources, mCurrFrameResource).Fence
    /\ pc' = "updateCBs"
    /\ UNCHANGED << initResult, geoGen, app, mCurrFrameResourceIndex,
                    mCurrFrameResource, mCurrentFence, mFence, mCommandQueue, mProj,
                    initLog, selected, drawFences >>

\* XMFLOAT4X4 values are named by a token; XMMatrixTranspose flips it.
Matrix(id) == [ id |-> id, transposed |-> FALSE ]
XMMatrixTranspose(m) == [ m EXCEPT !.transposed = ~@ ]

\* ObjectConstants objConstants of a render item (World and TexTransform are
\* the pair written for that item, named together by its World token).
ObjectConstantsOf(e) ==
    [ valid |-> TRUE, World |-> XMMatrixTranspose(Matrix(e.World)) ]

\* Faulty variant: the copy is made but NumFramesDirty is not decremented.
UpdateObjectCBs_KeepDirty(cb, items) ==
    LET dirty == SelectSeq(items, LAMBDA e : e.NumFramesDirty > 0)
        calls == [ c \in DOMAIN dirty |->
                     [ index |-> dirty[c].ObjCBIndex, data |-> ObjectConstantsOf(dirty[c]) ] ]
    IN [ cb |-> CopyDataAll(cb, calls), items |-> items ]

\* Faulty variant: NumFramesDirty is decremented outside the test, on every
\* Update.
UpdateObjectCBs_AlwaysDecrement(cb, items) ==
    LET dirty == SelectSeq(items, LAMBDA e : e.NumFramesDirty > 0)
        calls == [ c \in DOMAIN dirty |->
                     [ index |-> dirty[c].ObjCBIndex, data |-> ObjectConstantsOf(dirty[c]) ] ]
    IN [ cb |-> CopyDataAll(cb, calls),
         items |-> [ n \in DOMAIN items |->
                       [ items[n] EXCEPT !.NumFramesDirty = @ - 1 ] ] ]

\* for(auto& e : mAllRitems) if(e->NumFramesDirty > 0) { CopyData; --dirty }
UpdateObjectCBs(cb, items) ==
    LET dirty == SelectSeq(items, LAMBDA e : e.NumFramesDirty > 0)
        calls == [ c \in DOMAIN dirty |->
                     [ index |-> dirty[c].ObjCBIndex, data |-> ObjectConstantsOf(dirty[c]) ] ]
    IN [ cb |-> CopyDataAll(cb, calls),
         items |-> [ n \in DOMAIN items |->
                       IF items[n].NumFramesDirty > 0
                       THEN [ items[n] EXCEPT !.NumFramesDirty = @ - 1 ]
                       ELSE items[n] ] ]

\* MaterialConstants matConstants of a material (DiffuseAlbedo, FresnelR0 and
\* Roughness are named together by the material's Name).
MaterialConstantsOf(mat) ==
    [ valid |-> TRUE, Material |-> mat.Name,
      MatTransform |-> XMMatrixTranspose(Matrix(0)) ]

\* Every key the source uses with mMaterials, in the order in which the
\* implementation's unordered_map is taken to enumerate them.
MaterialKeyOrder ==
    << "bricks0", "stone0", "tile0", "wedgeMat", "diaMat", "octahedronMat", "sky",
       "gold", "shineBlue", "shineRed", "wallPurple", "diamondMat" >>

\* Faulty variant: the copy is made for every material on every Update,
\* whatever its NumFramesDirty.
UpdateMaterialCBs_Unconditional(cb, mats) ==
    LET keys == SelectSeq(MaterialKeyOrder, LAMBDA k : k \in DOMAIN mats)
        dirty == SelectSeq(keys, LAMBDA k : ~mats[k].null)
        calls == [ c \in DOMAIN dirty |->
                     [ index |-> mats[dirty[c]].MatCBIndex,
                       data |-> MaterialConstantsOf(mats[dirty[c]]) ] ]
    IN [ cb |-> CopyDataAll(cb, calls),
         mats |-> [ k \in DOMAIN mats |->
                      IF ~mats[k].null /\ mats[k].NumFramesDirty > 0
                      THEN [ mats[k] EXCEPT !.NumFramesDirty = @ - 1 ]
                      ELSE mats[k] ],
         nullDeref |-> \E k \in DOMAIN mats : mats[k].null ]

\* for(auto& e : mMaterials) if(mat->NumFramesDirty > 0) { CopyData; --dirty }
\* An empty unique_ptr in the map is dereferenced (nullDeref).
UpdateMaterialCBs(cb, mats) ==
    LET keys == SelectSeq(MaterialKeyOrder, LAMBDA k : k \in DOMAIN mats)
        dirty == SelectSeq(keys, LAMBDA k : ~mats[k].null /\ mats[k].NumFramesDirty > 0)
        calls == [ c \in DOMAIN dirty |->
                     [ index |-> mats[dirty[c]].MatCBIndex,
                       data |-> MaterialConstantsOf(mats[dirty[c]]) ] ]
    IN [ cb |-> CopyDataAll(cb, calls),
         mats |-> [ k \in DOMAIN mats |->
                      IF ~mats[k].null /\ mats[k].NumFramesDirty > 0
                      THEN [ mats[k] EXCEPT !.NumFramesDirty = @ - 1 ]
                      ELSE mats[k] ],
         nullDeref |-> \E k \in DOMAIN mats : mats[k].null ]

\* Faulty variant: the pass constants are copied to element 1.
UpdateMainPassCB_Element1(cb, proj) ==
    CopyData(cb, 1, [ valid |-> TRUE, Proj |-> XMMatrixTranspose(Matrix(proj)) ])

\* currPassCB->CopyData(0, mMainPassCB);
UpdateMainPassCB(cb, proj) ==
    CopyData(cb, 0, [ valid |-> TRUE, Proj |-> XMMatrixTranspose(Matrix(proj)) ])

\* Faulty variant: the material "sky" is animated and marked dirty on every
\* Update.
AnimateMaterials_MarkDirty(mats) ==
    [ k \in DOMAIN mats |->
        IF k = "sky" /\ ~mats[k].null
        THEN [ mats[k] EXCEPT !.NumFramesDirty = gNumFrameResources ]
        ELSE mats[k] ]

\* void LitColumnsApp::AnimateMaterials(const GameTimer& gt) { }
AnimateMaterials(mats) == mats

\* AnimateMaterials (empty), UpdateObjectCBs, UpdateMaterialCBs and
\* UpdateMainPassCB on the current frame resource.
UpdateCBs ==
    /\ pc = "updateCBs"
    /\ LET p == mCurrFrameResource
           fr == Deref(app.mFrameResources, p)
           o == UpdateObjectCBs(fr.ObjectCB, app.mAllRitems)
           m == UpdateMaterialCBs(fr.MaterialCB, AnimateMaterials(app.mMaterials))
           pass == UpdateMainPassCB(fr.PassCB, mProj)
       IN app' = [ app EXCEPT
                     !.mFrameResources[p + 1].ObjectCB = o.cb,
                     !.mFrameResources[p + 1].MaterialCB = m.cb,
                     !.mFrameResources[p + 1].PassCB = pass,
                     !.mAllRitems = o.items,
                     !.mMaterials = m.mats,
                     !.faults = @ \cup (IF m.nullDeref THEN { "nullDeref" } ELSE {})
                                  \cup (IF o.cb.oob \/ m.cb.oob \/ pass.oob
                                        THEN { "cbOutOfRange" } ELSE {}) ]
    /\ pc' = "draw"
    /\ UNCHANGED << initResult, geoGen, mCurrFrameResourceIndex, mCurrFrameResource,
                    mCurrentFence, mFence, mCommandQueue, mProj, initLog, selected,
                    drawFences >>

(***************************************************************************)
(* Draw                                                                    *)
(***************************************************************************)

\* mCurrFrameResource->Fence = ++mCurrentFence;
AdvanceFence(fence) == fence + 1

\* Faulty variant: the fence point is marked with a value no frame waits on.
DrawSignalValue_Stale(currentFence) == 0

\* mCommandQueue->Signal(mFence.Get(), mCurrentFence);
DrawSignalValue(currentFence) == currentFence

\* d3dUtil::CalcConstantBufferByteSize(sizeof(ObjectConstants)) and
\* (sizeof(MaterialConstants)): the element sizes of the constant buffers,
\* rounded up to the 256-byte hardware allocation size.
objCBByteSize == 256
matCBByteSize == 256

\* resource->GetGPUVirtualAddress() + offset, for the constant buffer named
\* buffer of frame resource fr.
GPUVirtualAddress(fr, buffer, offset) == [ fr |-> fr, buffer |-> buffer, offset |-> offset ]

\* cmdList->SetGraphicsRootConstantBufferView(slot, address)
SetGraphicsRootConstantBufferView(slot, address) ==
    [ cmd |-> "SetGraphicsRootConstantBufferView", slot |-> slot, address |-> address ]

\* cmdList->DrawIndexedInstanced(ri->IndexCount, 1, ri->StartIndexLocation,
\*                               ri->BaseVertexLocation, 0)
DrawIndexedInstanced(ri) ==
    [ cmd |-> "DrawIndexedInstanced",
      IndexCountPerInstance |-> ri.IndexCount, InstanceCount |-> 1,
      StartIndexLocation |-> ri.StartIndexLocation,
      BaseVertexLocation |-> ri.BaseVertexLocation, StartInstanceLocation |-> 0 ]

\* The commands of one pass of the loop of DrawRenderItems, for render item
\* ri, with the buffers of frame resource fr.
RenderItemCommands(fr, ri, mats) ==
    << [ cmd |-> "IASetVertexBuffers", geo |-> ri.Geo ],
       [ cmd |-> "IASetIndexBuffer", geo |-> ri.Geo ],
       [ cmd |-> "IASetPrimitiveTopology" ],
       SetGraphicsRootConstantBufferView(0,
           GPUVirtualAddress(fr, "ObjectCB", ri.ObjCBIndex * objCBByteSize)),
       SetGraphicsRootConstantBufferView(1,
           GPUVirtualAddress(fr, "MaterialCB",
               (IF ri.Mat \in DOMAIN mats THEN mats[ri.Mat].MatCBIndex ELSE 0)
                   * matCBByteSize)),
       DrawIndexedInstanced(ri) >>

\* Faulty variant: the buffers are taken from the frame resource that the
\* next Update will select.
DrawRenderItems_NextResource(fr, ritems, items, mats) ==
    LET per == 6 IN
    [ k \in 1..(per * Len(ritems)) |->
        RenderItemCommands((fr + 1) % gNumFrameResources,
                           items[ritems[((k - 1) \div per) + 1]], mats)[((k - 1) % per) + 1] ]

\* Faulty variant: the loop stops one render item short.
DrawRenderItems_SkipLast(fr, ritems, items, mats) ==
    LET per == 6 IN
    [ k \in 1..(per * (Len(ritems) - 1)) |->
        RenderItemCommands(fr, items[ritems[((k - 1) \div per) + 1]], mats)[((k - 1) % per) + 1] ]

\* DrawRenderItems(cmdList, ritems) with mCurrFrameResource = fr: the commands
\* it records, pass after pass of for(size_t i = 0; i < ritems.size(); ++i).
\* ritems holds pointers into items (mAllRitems).
DrawRenderItems(fr, ritems, items, mats) ==
    LET per == 6 IN
    [ k \in 1..(per * Len(ritems)) |->
        RenderItemCommands(fr, items[ritems[((k - 1) \div per) + 1]], mats)[((k - 1) % per) + 1] ]

\* ri->Geo->VertexBufferView() or ri->Mat->MatCBIndex through a null pointer.
DrawRenderItemsNullDeref(ritems, items, mats) ==
    \E n \in DOMAIN ritems :
        \/ items[ritems[n]].Geo = NullPtr
        \/ items[ritems[n]].Mat \notin DOMAIN mats

\* What Draw records between the two Resets and Close: the pass constant
\* buffer of the current frame resource on root slot 2, then DrawRenderItems.
RecordFrame(fr, ritems, items, mats) ==
    << SetGraphicsRootConstantBufferView(2, GPUVirtualAddress(fr, "PassCB", 0)) >>
        \o DrawRenderItems(fr, ritems, items, mats)

\* Faulty variant: the fence point is set before the frame is submitted.
DrawSubmit_SignalFirst(queue, alloc, fence) ==
    queue \o << Signal(DrawSignalValue(fence)), Exec(alloc, "frame"), Present >>

\* ExecuteCommandLists, Present, then Signal with the advanced fence value.
DrawSubmit(queue, alloc, fence) ==
    queue \o << Exec(alloc, "frame"), Present, Signal(DrawSignalValue(fence)) >>

\* Draw: reset the current frame resource's allocator, record and execute
\* the frame's command list, then mark the fence point.  Resetting an
\* allocator whose command lists the GPU has not finished is an error of the
\* API ("allocatorResetInFlight").
Draw ==
    /\ pc = "draw"
    /\ LET p == mCurrFrameResource
           newFence == AdvanceFence(mCurrentFence)
       IN /\ mCurrentFence' = newFence
          /\ app' = [ app EXCEPT
                        !.mFrameResources[p + 1].Fence = newFence,
                        !.mCommandList =
                            RecordFrame(p, app.mOpaqueRitems, app.mAllRitems, app.mMaterials),
                        !.faults =
                            @ \cup (IF Pending(p) # {}
                                    THEN { "allocatorResetInFlight" } ELSE {})
                              \cup (IF \/ p = NullFrameResource
                                       \/ DrawRenderItemsNullDeref(app.mOpaqueRitems,
                                                                   app.mAllRitems,
                                                                   app.mMaterials)
                                    THEN { "nullDeref" } ELSE {}) ]
          /\ mCommandQueue' = DrawSubmit(mCommandQueue, p, newFence)
          /\ drawFences' = drawFences \cup { newFence }
    /\ pc' = "idle"
    /\ UNCHANGED << initResult, geoGen, mCurrFrameResourceIndex, mCurrFrameResource,
                    mFence, mProj, initLog, selected >>

(***************************************************************************)
(* Specification                                                           *)
(***************************************************************************)

Next ==
    \/ \E ok \in BOOLEAN, aspect \in 1..MaxAspect : Initialize(ok, aspect)
    \/ InitializeReturn
    \/ OnResizeBegin
    \/ OnResizeExecute
    \/ \E aspect \in 1..MaxAspect : OnResizeEnd(aspect)
    \/ UpdateBegin
    \/ UpdateWake
    \/ UpdateCBs
    \/ Draw
    \/ GpuStep

Spec == Init /\ [][Next]_vars

\* The control-flow effect of UpdateCBs: the four update calls are
\* straight-line code, after which Update returns and Draw is called.  Under
\* Spec a step that takes pc from "updateCBs" to "draw" is an UpdateCBs step.
UpdateCBsReturn == pc = "updateCBs" /\ pc' = "draw"

\* The control-flow effect of Draw: it runs from its first statement to its
\* return without blocking.  Under Spec a step that takes pc from "draw" to
\* "idle" is a Draw step.
DrawReturn == pc = "draw" /\ pc' = "idle"

\* The GPU keeps working through its queue and the application thread keeps
\* running once it is past a wait.
LiveSpec ==
    /\ Spec
    /\ WF_vars(GpuStep)
    /\ WF_vars(InitializeReturn)
    /\ WF_vars(OnResizeExecute)
    /\ WF_vars(\E aspect \in 1..MaxAspect : OnResizeEnd(aspect))
    /\ WF_vars(UpdateWake)
    /\ WF_pc(UpdateCBsReturn)
    /\ WF_pc(DrawReturn)

TypeOK ==
    /\ pc \in { "start", "exit", "initFlush", "idle", "resizeFlush1", "resizeFlush2",
                "updateWait", "updateCBs", "draw" }
    /\ initResult \in { "none", "true", "false" }
    /\ mCurrFrameResourceIndex \in 0..(gNumFrameResources - 1)
    /\ mCurrFrameResource \in { NullFrameResource } \cup (0..(gNumFrameResources - 1))
    /\ mCurrentFence \in 0..MaxFence
    /\ mFence \in 0..mCurrentFence

(***************************************************************************)
(* Properties                                                              *)
(***************************************************************************)

\* The frame resource Update or Draw is working on.
CurrFrameResource == Deref(app.mFrameResources, mCurrFrameResource)

\* Updates that have written their constant buffers.
UpdatesDone ==
    Len(selected) - (IF pc \in { "updateWait", "updateCBs" } THEN 1 ELSE 0)

\* Frame resources some Update has filled.
Filled == { selected[n] : n \in 1..UpdatesDone }

Min(a, b) == IF a < b THEN a ELSE b

\* C1: whenever Update is past its wait and about to write the constant
\* buffers of the current frame resource, that frame resource's Fence is 0 or
\* the completed fence value has reached it, and the GPU has finished every
\* command list submitted with that frame resource.
C1_FenceGatesBufferWrites ==
    pc = "updateCBs" =>
        /\ CurrFrameResource.Fence = 0 \/ mFence >= CurrFrameResource.Fence
        /\ Pending(mCurrFrameResource) = {}

\* Update writes a frame resource that was used before while the GPU still
\* works on the frames submitted with the other frame resources.
C1_Witness ==
    /\ pc = "updateCBs"
    /\ CurrFrameResource.Fence # 0
    /\ \E q \in (0..(gNumFrameResources - 1)) \ { mCurrFrameResource } : Pending(q) # {}

\* C2: at every reset of the current frame resource's command allocator in
\* Draw, the completed fence value has reached the Fence its previous Draw
\* stored (or the frame resource was never used), no command list recorded
\* with that allocator is still in the queue, and no reset ever hit an
\* allocator in flight.
C2_AllocatorResetAfterCompletion ==
    /\ "allocatorResetInFlight" \notin app.faults
    /\ pc = "draw" =>
          /\ mCurrFrameResource # NullFrameResource
          /\ CurrFrameResource.Fence \in drawFences \cup { 0 }
          /\ CurrFrameResource.Fence # 0 => mFence >= CurrFrameResource.Fence
          /\ \A i \in DOMAIN mCommandQueue :
                mCommandQueue[i].op = "exec" => mCommandQueue[i].alloc # mCurrFrameResource

\* Draw is about to reset an allocator that an earlier Draw used, while two
\* later frames are still in the queue.
C2_Witness ==
    /\ pc = "draw"
    /\ CurrFrameResource.Fence # 0
    /\ Cardinality({ i \in DOMAIN mCommandQueue : mCommandQueue[i].list = "frame" }) = 2

\* C3: once built there are exactly gNumFrameResources = 3 frame resources;
\* the index is always in 0..2; the first Update selects index 1 and every
\* later Update the successor mod 3 of the one before; after an Update
\* mCurrFrameResource is mFrameResources[mCurrFrameResourceIndex]; any three
\* consecutive Updates select three distinct frame resources.
C3_CircularFrameResources ==
    /\ mCurrFrameResourceIndex \in 0..2
    /\ initResult = "true" => Len(app.mFrameResources) = 3
    /\ selected = << >> => mCurrFrameResourceIndex = 0 /\ mCurrFrameResource = NullFrameResource
    /\ selected # << >> =>
          /\ selected[1] = 1
          /\ mCurrFrameResource = mCurrFrameResourceIndex
          /\ mCurrFrameResourceIndex = selected[Len(selected)]
    /\ \A n \in DOMAIN selected :
          /\ selected[n] \in 0..2
          /\ n > 1 => selected[n] = (selected[n - 1] + 1) % 3
          /\ n > 2 => Cardinality({ selected[n - 2], selected[n - 1], selected[n] }) = 3

\* The index has wrapped from 2 back to 0 and gone on to 1.
C3_Witness ==
    /\ Len(selected) >= 4
    /\ selected[2] = 2 /\ selected[3] = 0 /\ selected[4] = 1

\* C4: every render item starts with NumFramesDirty = gNumFrameResources, and
\* its object constants are copied exactly once into each frame resource:
\* after n Updates the copy is in the frame resources those Updates selected
\* (one more per Update, at slot ObjCBIndex, holding the transposed World of
\* the item) and in no other, the item's NumFramesDirty is 3 - min(n, 3),
\* and after 3 Updates all three frame resources hold it and no Update
\* copies it again.
C4_ObjectDirtyPropagation ==
    \A n \in DOMAIN app.mAllRitems :
        LET e == app.mAllRitems[n]
            slot == e.ObjCBIndex + 1
        IN /\ e.NumFramesDirty = gNumFrameResources - Min(UpdatesDone, gNumFrameResources)
           /\ \A f \in DOMAIN app.mFrameResources :
                 LET cb == app.mFrameResources[f].ObjectCB IN
                 /\ slot \in DOMAIN cb.elems
                 /\ cb.writes[slot] = (IF (f - 1) \in Filled THEN 1 ELSE 0)
                 /\ cb.elems[slot] = (IF (f - 1) \in Filled
                                      THEN [ valid |-> TRUE,
                                             World |-> [ id |-> e.World, transposed |-> TRUE ] ]
                                      ELSE Uninit)

\* The third Update has just written: every item is clean and each of the
\* three frame resources holds one copy.
C4_Witness ==
    /\ pc = "draw"
    /\ Len(selected) = 3
    /\ app.mAllRitems # << >>
    /\ \A n \in DOMAIN app.mAllRitems : app.mAllRitems[n].NumFramesDirty = 0
    /\ \A f \in DOMAIN app.mFrameResources :
          \A j \in DOMAIN app.mFrameResources[f].ObjectCB.writes :
              app.mFrameResources[f].ObjectCB.writes[j] = 1

\* The concatenation order C5 names.
C5_ConcatOrder ==
    << "box", "grid", "sphere", "cylinder", "diamond", "wedge", "octahedron",
       "triangularPrism", "hexagon", "octagon", "cone", "pyramid", "container",
       "star" >>

C5_Before(m) == SubSeq(C5_ConcatOrder, 1, IndexOf(C5_ConcatOrder, m) - 1)

\* C5: in "shapeGeo", each submesh's BaseVertexLocation is the sum of the
\* vertex counts of the meshes before it in the order box, grid, sphere,
\* cylinder, diamond, wedge, octahedron, triangularPrism, hexagon, octagon,
\* cone, pyramid, container, star, and its StartIndexLocation the sum of
\* their index counts; the vertices and indices of each mesh lie in the
\* shared buffers at exactly those offsets, in mesh order; the submesh index
\* ranges are contiguous, pairwise disjoint and cover the index buffer; and
\* the vertex write cursor k ends at totalVertexCount.
C5_MeshOffsets ==
    "shapeGeo" \in DOMAIN app.mGeometries =>
        LET geo == app.mGeometries["shapeGeo"]
            args == geo.DrawArgs
            last == C5_ConcatOrder[Len(C5_ConcatOrder)]
        IN /\ DOMAIN args = Range(C5_ConcatOrder)
           /\ \A m \in Range(C5_ConcatOrder) :
                 /\ args[m].BaseVertexLocation = SumOver(C5_Before(m), geoGen, "nv")
                 /\ args[m].StartIndexLocation = SumOver(C5_Before(m), geoGen, "ni")
                 /\ args[m].IndexCount = geoGen[m].ni
                 /\ \A j \in 1..geoGen[m].nv :
                       /\ args[m].BaseVertexLocation + j \in DOMAIN geo.Vertices
                       /\ geo.Vertices[args[m].BaseVertexLocation + j] = [ mesh |-> m, i |-> j - 1 ]
                 /\ \A j \in 1..geoGen[m].ni :
                       /\ args[m].StartIndexLocation + j \in DOMAIN geo.Indices
                       /\ geo.Indices[args[m].StartIndexLocation + j] = [ mesh |-> m, i |-> j - 1 ]
           /\ \A x \in DOMAIN geo.Indices :
                 Cardinality({ m \in DOMAIN args :
                                 /\ args[m].StartIndexLocation < x
                                 /\ x <= args[m].StartIndexLocation + args[m].IndexCount }) = 1
           /\ \A n \in 2..Len(C5_ConcatOrder) :
                 args[C5_ConcatOrder[n]].StartIndexLocation =
                     args[C5_ConcatOrder[n - 1]].StartIndexLocation
                     + args[C5_ConcatOrder[n - 1]].IndexCount
           /\ args[C5_ConcatOrder[1]].StartIndexLocation = 0
           /\ args[last].StartIndexLocation + args[last].IndexCount = Len(geo.Indices)
           /\ geo.k = geo.totalVertexCount
           /\ geo.k = Len(geo.Vertices)
           /\ ~geo.oob

\* The geometry is built from meshes of different sizes, so the offsets are
\* not multiples of one size.
C5_Witness ==
    /\ "shapeGeo" \in DOMAIN app.mGeometries
    /\ geoGen["box"].nv # geoGen["sphere"].nv
    /\ geoGen["sphere"].nv # geoGen["cylinder"].nv
    /\ geoGen["box"].ni # geoGen["grid"].ni
    /\ app.mGeometries["shapeGeo"].DrawArgs["star"].BaseVertexLocation > 14
    /\ app.mGeometries["shapeGeo"].DrawArgs["star"].StartIndexLocation > 42

C6_MaterialNames ==
    { "bricks0", "stone0", "tile0", "wedgeMat", "diaMat", "octahedronMat", "sky",
      "gold", "shineBlue", "shineRed", "wallPurple" }

C6_DrawArgsKeys ==
    { "cylinder", "container", "pyramid", "cone", "hexagon", "triangularPrism",
      "diamond", "box", "grid", "wedge", "octahedron", "octagon", "sphere", "star" }

\* C6: after BuildRenderItems every render item has a non-null Mat and Geo
\* and the draw arguments of a registered, non-empty submesh; mMaterials
\* holds exactly the materials BuildMaterials inserted, mGeometries exactly
\* "shapeGeo", and its DrawArgs exactly the fourteen registered keys, each
\* of which some render item uses: no lookup created a default entry.
C6_LookupsFindBuiltEntries ==
    app.mAllRitems # << >> =>
        /\ "nullDeref" \notin app.faults
        /\ DOMAIN app.mMaterials = C6_MaterialNames
        /\ \A k \in DOMAIN app.mMaterials : ~app.mMaterials[k].null
        /\ DOMAIN app.mGeometries = { "shapeGeo" }
        /\ DOMAIN app.mGeometries["shapeGeo"].DrawArgs = C6_DrawArgsKeys
        /\ { app.mAllRitems[n].ArgsKey : n \in DOMAIN app.mAllRitems } = C6_DrawArgsKeys
        /\ \A n \in DOMAIN app.mAllRitems :
              LET e == app.mAllRitems[n]
                  sub == app.mGeometries["shapeGeo"].DrawArgs[e.ArgsKey]
              IN /\ e.Mat # NullPtr /\ e.Mat \in C6_MaterialNames
                 /\ e.Geo = "shapeGeo"
                 /\ e.IndexCount = sub.IndexCount /\ e.IndexCount > 0
                 /\ e.StartIndexLocation = sub.StartIndexLocation
                 /\ e.BaseVertexLocation = sub.BaseVertexLocation
                 /\ sub = Submesh(geoGen, e.ArgsKey)

\* The render items are built; the first one is the fountain base, a
\* cylinder of material "diaMat".
C6_Witness ==
    /\ Len(app.mAllRitems) = 50
    /\ app.mAllRitems[1].Mat = "diaMat"
    /\ app.mAllRitems[1].ArgsKey = "cylinder"
    /\ app.mAllRitems[50].Mat = "wallPurple"

\* C7: when Initialize has returned true, the initialization command list
\* has been submitted and the GPU has finished it, and no Update or Draw
\* starts before that; when D3DApp::Initialize fails, Initialize returns
\* false having built nothing and submitted nothing.
C7_InitializeWaits ==
    /\ initResult = "true" =>
          /\ initLog[1] = "D3DApp::Initialize succeeded"
          /\ \A i \in DOMAIN mCommandQueue : mCommandQueue[i].list # "init"
          /\ app.mFrameResources # << >>
          /\ app.mOpaquePSO
    /\ (selected # << >> \/ drawFences # {} \/ pc \in { "updateWait", "updateCBs", "draw" })
          => initResult = "true"
    /\ (\E i \in DOMAIN mCommandQueue : mCommandQueue[i].list \in { "frame", "resize" })
          => initResult = "true"
    /\ (initLog # << >> /\ initLog[1] = "D3DApp::Initialize failed") =>
          /\ initResult = "false"
          /\ app = EmptyApp
          /\ mCommandQueue = << >>
          /\ mCurrentFence = 0
    /\ initResult = "false" => initLog = << "D3DApp::Initialize failed" >>

\* Initialize has just returned true; nothing else has run yet.
C7_Witness ==
    /\ initResult = "true"
    /\ pc = "idle"
    /\ selected = << >>
    /\ mCommandQueue = << >>
    /\ mFence = mCurrentFence

\* Fence values of frames Draw has submitted and the GPU has not completed.
FramesInFlight == { v \in drawFences : v > mFence }

\* C8: at most gNumFrameResources (3) submitted frames have a fence value
\* above the completed fence value, and when Draw starts recording a frame at
\* most 2 are in flight.
C8_BoundedCpuLead ==
    /\ Cardinality(FramesInFlight) <= gNumFrameResources
    /\ pc = "draw" => Cardinality(FramesInFlight) <= gNumFrameResources - 1

\* Three frames are in flight and the GPU has finished none of them.
C8_Witness ==
    /\ Cardinality(FramesInFlight) = 3
    /\ Cardinality({ i \in DOMAIN mCommandQueue : mCommandQueue[i].list = "frame" }) = 3

\* The fence value Update waits on has been signaled on the queue by a Draw:
\* the signal is still queued or the GPU has already reached it.
WaitedFenceSignaled ==
    LET f == CurrFrameResource.Fence
    IN /\ f \in drawFences
       /\ \/ mFence >= f
          \/ \E i \in DOMAIN mCommandQueue :
                mCommandQueue[i].op = "signal" /\ mCommandQueue[i].value >= f

\* C9: with a GPU that eventually completes every fence value signaled on
\* the queue, every wait entered in Update is on a fence value an earlier
\* Draw signaled, every such wait ends and Update goes on to write its
\* buffers, and the Draw that follows completes the frame.
C9_NoDeadlock ==
    /\ [](pc = "updateWait" => WaitedFenceSignaled)
    /\ (pc = "updateWait") ~> (pc = "updateCBs")
    /\ (pc = "updateCBs") ~> (pc = "idle")

\* Update is blocked on a fence value the GPU has not reached, while the
\* other two frames are also still queued.
C9_Witness ==
    /\ pc = "updateWait"
    /\ mFence < CurrFrameResource.Fence
    /\ Cardinality({ i \in DOMAIN mCommandQueue : mCommandQueue[i].list = "frame" }) = 3

\* C10: once built, mAllRitems has N = 50 items whose ObjCBIndex values are
\* exactly 0..N-1, each used once and none left at the default (UINT)-1;
\* every frame resource's object constant buffer has N elements, so every
\* slot an item names lies inside it, and no CopyData fell outside a buffer.
C10_ObjCBIndexUniqueInRange ==
    /\ "cbOutOfRange" \notin app.faults
    /\ app.mAllRitems # << >> =>
          LET N == Len(app.mAllRitems) IN
          /\ N = 50
          /\ { app.mAllRitems[n].ObjCBIndex : n \in 1..N } = 0..(N - 1)
          /\ \A a, b \in 1..N :
                app.mAllRitems[a].ObjCBIndex = app.mAllRitems[b].ObjCBIndex => a = b
          /\ \A n \in 1..N : app.mAllRitems[n].ObjCBIndex # DefaultObjCBIndex
          /\ Len(app.mFrameResources) = gNumFrameResources
          /\ \A f \in DOMAIN app.mFrameResources :
                /\ Len(app.mFrameResources[f].ObjectCB.elems) = N
                /\ ~app.mFrameResources[f].ObjectCB.oob
                /\ \A n \in 1..N :
                      app.mAllRitems[n].ObjCBIndex + 1
                          \in DOMAIN app.mFrameResources[f].ObjectCB.elems

\* An Update has copied all 50 items into distinct slots of the current
\* frame resource's object constant buffer.
C10_Witness ==
    /\ pc = "draw"
    /\ Len(app.mAllRitems) = 50
    /\ \A j \in 1..50 : CurrFrameResource.ObjectCB.elems[j].valid
    /\ Cardinality({ CurrFrameResource.ObjectCB.elems[j].World.id : j \in 1..50 }) = 50

\* C11: the materials in mMaterials number M = 11, each stored under its
\* Name, with MatCBIndex values exactly 0..M-1 and each value used once;
\* every frame resource's material constant buffer has M elements, so the
\* slot of every material, and the slot DrawRenderItems addresses through
\* each render item's Mat, lies inside it, and no CopyData fell outside a
\* buffer.
C11_MatCBIndexUniqueInRange ==
    /\ "cbOutOfRange" \notin app.faults
    /\ app.mMaterials # << >> =>
          LET mats == app.mMaterials
              M == Cardinality(DOMAIN mats)
          IN /\ M = 11
             /\ \A k \in DOMAIN mats : ~mats[k].null /\ mats[k].Name = k
             /\ { mats[k].MatCBIndex : k \in DOMAIN mats } = 0..(M - 1)
             /\ \A a, b \in DOMAIN mats :
                   mats[a].MatCBIndex = mats[b].MatCBIndex => a = b
             /\ Len(app.mFrameResources) = gNumFrameResources
             /\ \A f \in DOMAIN app.mFrameResources :
                   LET cb == app.mFrameResources[f].MaterialCB
                   IN /\ Len(cb.elems) = M
                      /\ ~cb.oob
                      /\ \A k \in DOMAIN mats : mats[k].MatCBIndex + 1 \in DOMAIN cb.elems
                      /\ \A n \in DOMAIN app.mOpaqueRitems :
                            LET ri == app.mAllRitems[app.mOpaqueRitems[n]]
                            IN /\ ri.Mat \in DOMAIN mats
                               /\ mats[ri.Mat].MatCBIndex + 1 \in DOMAIN cb.elems
                      /\ \A j \in DOMAIN cb.elems :
                            cb.elems[j].valid =>
                                /\ cb.elems[j].Material \in DOMAIN mats
                                /\ mats[cb.elems[j].Material].MatCBIndex = j - 1

\* An Update has copied the 11 materials into 11 different slots of the
\* current frame resource's material constant buffer.
C11_Witness ==
    /\ pc = "draw"
    /\ Len(CurrFrameResource.MaterialCB.elems) = 11
    /\ \A j \in 1..11 : CurrFrameResource.MaterialCB.elems[j].valid
    /\ Cardinality({ CurrFrameResource.MaterialCB.elems[j].Material : j \in 1..11 }) = 11

\* The number of Draws that have returned.
DrawsDone == Cardinality(drawFences)

\* C12: every Draw stores ++mCurrentFence in the current frame resource and
\* appends to the queue, in this order, the frame's command list, the
\* Present and the Signal of that same value; the value is greater than
\* every fence value stored before, so stored values increase strictly from
\* Draw to Draw; a frame resource a Draw has used never has Fence 0 again;
\* and when the completed fence value has reached a stored value v, no
\* command list of a frame resource whose stored value is at most v is
\* still queued.
C12_FencePoints ==
    /\ [][DrawReturn =>
            LET n == Len(mCommandQueue)
                v == mCurrentFence'
            IN /\ v = mCurrentFence + 1
               /\ app'.mFrameResources[mCurrFrameResource + 1].Fence = v
               /\ \A f \in DOMAIN app.mFrameResources :
                     /\ app.mFrameResources[f].Fence < v
                     /\ f # mCurrFrameResource + 1 =>
                           app'.mFrameResources[f].Fence = app.mFrameResources[f].Fence
               /\ Len(mCommandQueue') = n + 3
               /\ SubSeq(mCommandQueue', 1, n) = mCommandQueue
               /\ mCommandQueue'[n + 1].op = "exec"
               /\ mCommandQueue'[n + 1].alloc = mCurrFrameResource
               /\ mCommandQueue'[n + 2].op = "present"
               /\ mCommandQueue'[n + 3].op = "signal"
               /\ mCommandQueue'[n + 3].value = v
               /\ drawFences' = drawFences \cup { v }
         ]_vars
    /\ [](/\ \A n \in 1..Min(DrawsDone, Len(selected)) :
                app.mFrameResources[selected[n] + 1].Fence \in drawFences
          /\ \A f \in DOMAIN app.mFrameResources :
                app.mFrameResources[f].Fence \in drawFences \cup { 0 }
          /\ \A f, g \in DOMAIN app.mFrameResources :
                (/\ app.mFrameResources[f].Fence # 0
                 /\ mFence >= app.mFrameResources[f].Fence
                 /\ app.mFrameResources[g].Fence # 0
                 /\ app.mFrameResources[g].Fence <= app.mFrameResources[f].Fence)
                    => Pending(g - 1) = {}
          /\ 0 \notin drawFences)

\* The GPU has reached the fence point of one frame while the command list
\* of a later frame is still queued, and every frame resource has been used
\* more than once.
C12_Witness ==
    /\ DrawsDone >= 4
    /\ \E f, g \in DOMAIN app.mFrameResources :
          /\ app.mFrameResources[f].Fence # 0
          /\ mFence >= app.mFrameResources[f].Fence
          /\ app.mFrameResources[g].Fence > app.mFrameResources[f].Fence
          /\ Pending(g - 1) # {}

\* The root constant-buffer bindings of a recorded command list.
Bindings(list) ==
    { k \in DOMAIN list : list[k].cmd = "SetGraphicsRootConstantBufferView" }

\* C13: Draw leaves mCurrFrameResourceIndex and mCurrFrameResource as the
\* preceding Update set them, and every constant-buffer address it binds
\* (pass on root slot 2, object on slot 0, material on slot 1) is in a buffer
\* of mCurrFrameResource, which that Update has filled; when Draw runs,
\* mCurrFrameResource is the frame resource the last Update selected and is
\* not null, and no null pointer is dereferenced.
C13_DrawUsesCurrentFrameResource ==
    /\ [][DrawReturn =>
            /\ mCurrFrameResourceIndex' = mCurrFrameResourceIndex
            /\ mCurrFrameResource' = mCurrFrameResource
            /\ Bindings(app'.mCommandList) # {}
            /\ \A k \in Bindings(app'.mCommandList) :
                  LET b == app'.mCommandList[k]
                  IN /\ b.address.fr = mCurrFrameResource
                     /\ b.slot = 2 => b.address.buffer = "PassCB"
                     /\ b.slot = 0 => b.address.buffer = "ObjectCB"
                     /\ b.slot = 1 => b.address.buffer = "MaterialCB"
                     /\ b.slot \in { 0, 1, 2 }
            /\ mCommandQueue'[Len(mCommandQueue) + 1].alloc = mCurrFrameResource
         ]_vars
    /\ [](/\ "nullDeref" \notin app.faults
          /\ pc = "draw" =>
                /\ mCurrFrameResource # NullFrameResource
                /\ selected # << >>
                /\ mCurrFrameResource = selected[Len(selected)]
                /\ mCurrFrameResource = mCurrFrameResourceIndex
                /\ CurrFrameResource.PassCB.elems[1].valid
                /\ CurrFrameResource.PassCB.writes[1] >= 1
                /\ \A j \in DOMAIN CurrFrameResource.ObjectCB.elems :
                      CurrFrameResource.ObjectCB.elems[j].valid
                /\ \A j \in DOMAIN CurrFrameResource.MaterialCB.elems :
                      CurrFrameResource.MaterialCB.elems[j].valid)

\* The fourth Draw has returned: it recorded its command list with the
\* buffers of frame resource 1, which the fourth Update selected.
C13_Witness ==
    /\ pc = "idle"
    /\ DrawsDone = 4
    /\ Len(selected) = 4
    /\ mCurrFrameResource = 1
    /\ Len(app.mCommandList) = 301
    /\ \A k \in Bindings(app.mCommandList) : app.mCommandList[k].address.fr = 1

\* C14: NumFramesDirty of every render item and of every material is always
\* in 0..gNumFrameResources: it is 3 when Initialize has built them, each
\* Update lowers it by exactly 1 if it is above 0 and leaves it at 0
\* otherwise, and nothing else changes it.
C14_NumFramesDirtyRange ==
    /\ [](/\ \A n \in DOMAIN app.mAllRitems :
                app.mAllRitems[n].NumFramesDirty \in 0..gNumFrameResources
          /\ \A k \in DOMAIN app.mMaterials :
                app.mMaterials[k].NumFramesDirty \in 0..gNumFrameResources)
    /\ [][(app.mAllRitems = << >> /\ app'.mAllRitems # << >>) =>
             /\ \A n \in DOMAIN app'.mAllRitems :
                   app'.mAllRitems[n].NumFramesDirty = gNumFrameResources
             /\ \A k \in DOMAIN app'.mMaterials :
                   app'.mMaterials[k].NumFramesDirty = gNumFrameResources
         ]_vars
    /\ [][app.mAllRitems # << >> =>
             /\ DOMAIN app'.mAllRitems = DOMAIN app.mAllRitems
             /\ DOMAIN app'.mMaterials = DOMAIN app.mMaterials
             /\ \A n \in DOMAIN app.mAllRitems :
                   app'.mAllRitems[n].NumFramesDirty =
                       IF UpdateCBsReturn /\ app.mAllRitems[n].NumFramesDirty > 0
                       THEN app.mAllRitems[n].NumFramesDirty - 1
                       ELSE app.mAllRitems[n].NumFramesDirty
             /\ \A k \in DOMAIN app.mMaterials :
                   app'.mMaterials[k].NumFramesDirty =
                       IF UpdateCBsReturn /\ app.mMaterials[k].NumFramesDirty > 0
                       THEN app.mMaterials[k].NumFramesDirty - 1
                       ELSE app.mMaterials[k].NumFramesDirty
         ]_vars

\* The fourth Update has run: every counter had reached 0 and stayed there.
C14_Witness ==
    /\ pc = "draw"
    /\ Len(selected) = 4
    /\ app.mAllRitems # << >>
    /\ \A n \in DOMAIN app.mAllRitems : app.mAllRitems[n].NumFramesDirty = 0
    /\ \A k \in DOMAIN app.mMaterials : app.mMaterials[k].NumFramesDirty = 0

\* C15: every material starts with NumFramesDirty = gNumFrameResources, and
\* its constants (DiffuseAlbedo, FresnelR0, Roughness and the transposed
\* MatTransform) are copied exactly once into the material constant buffer
\* of each frame resource: after n Updates the copy is at slot MatCBIndex in
\* the frame resources those Updates selected and in no other, the
\* material's NumFramesDirty is 3 - min(n, 3), and after 3 Updates all three
\* frame resources hold it and no Update copies it again.
C15_MaterialDirtyPropagation ==
    \A k \in DOMAIN app.mMaterials :
        LET mat == app.mMaterials[k]
            slot == mat.MatCBIndex + 1
        IN /\ mat.NumFramesDirty = gNumFrameResources - Min(UpdatesDone, gNumFrameResources)
           /\ \A f \in DOMAIN app.mFrameResources :
                 LET cb == app.mFrameResources[f].MaterialCB IN
                 /\ slot \in DOMAIN cb.elems
                 /\ cb.writes[slot] = (IF (f - 1) \in Filled THEN 1 ELSE 0)
                 /\ cb.elems[slot] = (IF (f - 1) \in Filled
                                      THEN [ valid |-> TRUE, Material |-> mat.Name,
                                             MatTransform |-> [ id |-> 0, transposed |-> TRUE ] ]
                                      ELSE Uninit)

\* The fifth Update has written its buffers: each frame resource holds one
\* copy of every material, made by one of the first three Updates.
C15_Witness ==
    /\ pc = "draw"
    /\ Len(selected) = 5
    /\ Cardinality(DOMAIN app.mMaterials) = 11
    /\ \A f \in DOMAIN app.mFrameResources :
          \A j \in DOMAIN app.mFrameResources[f].MaterialCB.writes :
              app.mFrameResources[f].MaterialCB.writes[j] = 1

\* C16: once three Updates have written their buffers, every NumFramesDirty
\* is 0, each slot of the object and material constant buffers of each frame
\* resource has been written exactly once, the three object buffers are
\* equal slot for slot and so are the three material buffers, and a later
\* Update changes neither an object nor a material constant buffer nor any
\* NumFramesDirty.
C16_SteadyState ==
    /\ [](UpdatesDone >= gNumFrameResources =>
            /\ \A n \in DOMAIN app.mAllRitems : app.mAllRitems[n].NumFramesDirty = 0
            /\ \A k \in DOMAIN app.mMaterials : app.mMaterials[k].NumFramesDirty = 0
            /\ \A f \in DOMAIN app.mFrameResources :
                  LET fr == app.mFrameResources[f] IN
                  /\ \A j \in DOMAIN fr.ObjectCB.writes : fr.ObjectCB.writes[j] = 1
                  /\ \A j \in DOMAIN fr.MaterialCB.writes : fr.MaterialCB.writes[j] = 1
                  /\ \A j \in DOMAIN fr.ObjectCB.elems : fr.ObjectCB.elems[j].valid
                  /\ \A j \in DOMAIN fr.MaterialCB.elems : fr.MaterialCB.elems[j].valid
            /\ \A f, g \in DOMAIN app.mFrameResources :
                  /\ app.mFrameResources[f].ObjectCB.elems = app.mFrameResources[g].ObjectCB.elems
                  /\ app.mFrameResources[f].MaterialCB.elems
                         = app.mFrameResources[g].MaterialCB.elems)
    /\ [][UpdatesDone >= gNumFrameResources =>
            /\ app'.mAllRitems = app.mAllRitems
            /\ app'.mMaterials = app.mMaterials
            /\ \A f \in DOMAIN app.mFrameResources :
                  /\ app'.mFrameResources[f].ObjectCB = app.mFrameResources[f].ObjectCB
                  /\ app'.mFrameResources[f].MaterialCB = app.mFrameResources[f].MaterialCB
         ]_vars

\* The sixth Update has written its buffers, three Updates after the steady
\* state was reached.
C16_Witness ==
    /\ pc = "draw"
    /\ Len(selected) = 6
    /\ Len(app.mFrameResources) = gNumFrameResources
    /\ app.mFrameResources[1].ObjectCB.elems = app.mFrameResources[3].ObjectCB.elems
    /\ app.mFrameResources[1].ObjectCB.elems[50].valid
    /\ app.mFrameResources[2].PassCB.writes[1] = 2

\* The Updates, among those that have written their buffers, that selected
\* frame resource fr.
UpdatesOn(fr) == { n \in 1..UpdatesDone : selected[n] = fr }

\* C17: the pass constant buffer of every frame resource has exactly 1
\* element; every Update writes the pass constants (the transposed mProj)
\* into element 0 of the pass buffer of the frame resource it selected,
\* whether or not anything is dirty, and into no other pass buffer, so a
\* frame resource's pass buffer has been written once per Update that
\* selected it; no other step writes a pass buffer.
C17_PassConstantsEveryUpdate ==
    /\ [](\A f \in DOMAIN app.mFrameResources :
             LET cb == app.mFrameResources[f].PassCB IN
             /\ Len(cb.elems) = 1
             /\ ~cb.oob
             /\ cb.writes[1] = Cardinality(UpdatesOn(f - 1))
             /\ cb.elems[1].valid <=> UpdatesOn(f - 1) # {})
    /\ [][app.mFrameResources # << >> =>
            \A f \in DOMAIN app.mFrameResources :
                IF UpdateCBsReturn /\ f = mCurrFrameResource + 1
                THEN /\ app'.mFrameResources[f].PassCB.writes[1]
                            = app.mFrameResources[f].PassCB.writes[1] + 1
                     /\ app'.mFrameResources[f].PassCB.elems[1]
                            = [ valid |-> TRUE, Proj |-> [ id |-> mProj, transposed |-> TRUE ] ]
                ELSE app'.mFrameResources[f].PassCB = app.mFrameResources[f].PassCB
         ]_vars

\* The fifth Update has rewritten the pass constants of frame resource 2,
\* three Updates after its first write and after every dirty counter reached
\* 0, with a projection set by a resize in between.
C17_Witness ==
    /\ pc = "draw"
    /\ Len(selected) = 5
    /\ mCurrFrameResource = 2
    /\ CurrFrameResource.PassCB.writes[1] = 2
    /\ CurrFrameResource.PassCB.elems[1].Proj.id = 2
    /\ app.mFrameResources[1].PassCB.elems[1].Proj.id = 1

\* Step a is run before step b by Initialize.
RunsBefore(a, b) ==
    /\ a \in Range(initLog)
    /\ b \in Range(initLog)
    /\ IndexOf(initLog, a) < IndexOf(initLog, b)

\* C18: when Initialize has run its Build* steps, BuildShapeGeometry and
\* BuildMaterials ran before BuildRenderItems, BuildRenderItems and
\* BuildMaterials before BuildFrameResources, and BuildRootSignature and
\* BuildShadersAndInputLayout before BuildPSOs; each of the 3 frame
\* resources has 1 pass element, as many object elements as mAllRitems has
\* items and as many material elements as mMaterials has entries, both at
\* their final sizes; and the pipeline state was built from a root
\* signature and shaders that existed.
C18_InitializationOrder ==
    (initLog # << >> /\ initLog[1] = "D3DApp::Initialize succeeded") =>
        /\ RunsBefore("BuildShapeGeometry", "BuildRenderItems")
        /\ RunsBefore("BuildMaterials", "BuildRenderItems")
        /\ RunsBefore("BuildRenderItems", "BuildFrameResources")
        /\ RunsBefore("BuildMaterials", "BuildFrameResources")
        /\ RunsBefore("BuildRootSignature", "BuildPSOs")
        /\ RunsBefore("BuildShadersAndInputLayout", "BuildPSOs")
        /\ Len(app.mAllRitems) = 50
        /\ Cardinality(DOMAIN app.mMaterials) = 11
        /\ Len(app.mFrameResources) = gNumFrameResources
        /\ \A f \in DOMAIN app.mFrameResources :
              /\ Len(app.mFrameResources[f].PassCB.elems) = 1
              /\ Len(app.mFrameResources[f].ObjectCB.elems) = Len(app.mAllRitems)
              /\ Len(app.mFrameResources[f].MaterialCB.elems)
                     = Cardinality(DOMAIN app.mMaterials)
        /\ app.mOpaquePSO
        /\ app.mRootSignature
        /\ app.faults \cap { "nullDeref", "psoFailed" } = {}

\* Initialize has run the Build* steps and is waiting for the GPU to finish
\* the initialization commands.
C18_Witness ==
    /\ pc = "initFlush"
    /\ Len(app.mFrameResources) = 3
    /\ Len(app.mFrameResources[3].ObjectCB.elems) = 50
    /\ Len(app.mFrameResources[3].MaterialCB.elems) = 11
    /\ mCommandQueue # << >>

\* The commands named cmd of a recorded command list, in order.
CommandsNamed(list, cmd) == SelectSeq(list, LAMBDA c : c.cmd = cmd)

\* The bindings of root slot slot of a recorded command list, in order.
BindingsOf(list, slot) ==
    SelectSeq(list, LAMBDA c : c.cmd = "SetGraphicsRootConstantBufferView" /\ c.slot = slot)

\* C19: the command list the last Draw recorded holds exactly one
\* DrawIndexedInstanced per render item of mOpaqueRitems, in list order, with
\* that item's IndexCount, StartIndexLocation and BaseVertexLocation and
\* instance count 1; just before it root slot 0 is bound to the object
\* buffer of the frame resource current in that Draw at offset
\* ObjCBIndex * objCBByteSize and root slot 1 to its material buffer at
\* offset Mat->MatCBIndex * matCBByteSize, both inside the buffers; and the
\* drawn index range StartIndexLocation .. StartIndexLocation + IndexCount - 1
\* lies inside the index buffer of "shapeGeo".
C19_DrawRenderItems ==
    app.mCommandList # << >> =>
        LET list == app.mCommandList
            N == Len(app.mOpaqueRitems)
            fr == selected[DrawsDone]
            draws == CommandsNamed(list, "DrawIndexedInstanced")
            objBinds == BindingsOf(list, 0)
            matBinds == BindingsOf(list, 1)
            pos(n) == 1 + 6 * n
        IN /\ N = 50
           /\ Len(draws) = N /\ Len(objBinds) = N /\ Len(matBinds) = N
           /\ Len(list) = pos(N)
           /\ \A n \in 1..N :
                 LET ri == app.mAllRitems[app.mOpaqueRitems[n]]
                     d == draws[n]
                     frame == app.mFrameResources[fr + 1]
                 IN /\ list[pos(n)] = d
                    /\ list[pos(n) - 2] = objBinds[n]
                    /\ list[pos(n) - 1] = matBinds[n]
                    /\ d.IndexCountPerInstance = ri.IndexCount
                    /\ d.InstanceCount = 1
                    /\ d.StartIndexLocation = ri.StartIndexLocation
                    /\ d.BaseVertexLocation = ri.BaseVertexLocation
                    /\ d.StartInstanceLocation = 0
                    /\ objBinds[n].address =
                          [ fr |-> fr, buffer |-> "ObjectCB",
                            offset |-> ri.ObjCBIndex * objCBByteSize ]
                    /\ matBinds[n].address =
                          [ fr |-> fr, buffer |-> "MaterialCB",
                            offset |-> app.mMaterials[ri.Mat].MatCBIndex * matCBByteSize ]
                    /\ objBinds[n].address.offset >= 0
                    /\ objBinds[n].address.offset < Len(frame.ObjectCB.elems) * objCBByteSize
                    /\ matBinds[n].address.offset >= 0
                    /\ matBinds[n].address.offset < Len(frame.MaterialCB.elems) * matCBByteSize
                    /\ d.IndexCountPerInstance > 0
                    /\ d.StartIndexLocation >= 0
                    /\ d.StartIndexLocation + d.IndexCountPerInstance
                          <= Len(app.mGeometries[ri.Geo].Indices)
                    /\ d.BaseVertexLocation >= 0
                    /\ d.BaseVertexLocation < Len(app.mGeometries[ri.Geo].Vertices)

\* The second Draw has recorded its command list for frame resource 2; the
\* last item drawn is a wall built from the box submesh.
C19_Witness ==
    /\ DrawsDone = 2
    /\ pc = "idle"
    /\ Len(CommandsNamed(app.mCommandList, "DrawIndexedInstanced")) = 50
    /\ app.mCommandList[299].address = [ fr |-> 2, buffer |-> "ObjectCB", offset |-> 49 * 256 ]
    /\ app.mCommandList[301].IndexCountPerInstance = geoGen["box"].ni

=============================================================================
